---- MODULE Spec2Model ----
(***************************************************************************)
(* Model of linkedin_freelance_france_2025_API.py: the process-wide        *)
(* SCRAPE_STATE guarded by state_lock, the request handlers scrape_start,  *)
(* scrape_status and scrape_linkedin, the background wrapper               *)
(* run_scraper_task, and the crawl run_scraper with its helpers            *)
(* (load_cookies, scroll_to_bottom_by_last_job, extract_job,               *)
(* go_to_next_page), and the two helpers that compute on text alone,       *)
(* parse_netscape_cookies and download_csv, each called on its own.        *)
(*                                                                         *)
(* One step of the model is one critical section on state_lock together    *)
(* with the thread-local code that precedes it; the browser is the         *)
(* environment, and each of its operations either returns or raises.       *)
(***************************************************************************)
EXTENDS Integers, Sequences, FiniteSets, TLC

(* ------------------------------ bounds --------------------------------- *)
\* background runs accepted in one behaviour
MaxRuns == 2
\* lines of a cookie-export text
MaxLines == 2
\* characters of a requested file name
MaxName == 4
\* largest max_pages a request carries
MaxPagesIn == 1
\* most cards a result page ever shows
MaxCards == 2
\* synchronous POST /scrape requests in one behaviour
MaxSyncRuns == 1
\* max_pages of the long run that fills the log
LongPages == 10

(* ------------------------- program constants --------------------------- *)
\* log(): len(SCRAPE_STATE["logs"]) > 200
LogCap == 200
\* scroll_to_bottom_by_last_job(driver, max_scrolls=300)
MaxScrolls == 300
\* if no_progress >= 12
StagnationLimit == 12
\* parse_netscape_cookies: if len(parts) < 7
MinFields == 7

None == "None"
\* the process id of the synchronous request; background runs are 1..MaxRuns
SyncId == 0
Runs == 1..MaxRuns
Procs == {SyncId} \cup Runs

VARIABLES
  running,   \* SCRAPE_STATE["running"]
  logs,      \* SCRAPE_STATE["logs"]
  result,    \* SCRAPE_STATE["result"]
  task,      \* task[r]: where background task r (run_scraper_task) stands
  cr,        \* cr[p]: the locals of the run_scraper call of process p
  resp,      \* the response returned by the request handled in the last step
  nsync,     \* synchronous requests received so far
  call,      \* the call of parse_netscape_cookies or download_csv under study
  env        \* what the environment may do in this specification (never changes)

vars == <<running, logs, result, task, cr, resp, nsync, call, env>>

(* ------------------------------ log() ---------------------------------- *)
Entry(p, m) == [run |-> p, msg |-> m]

\* logs[-200:]
LastN(l, n) == IF Len(l) > n THEN SubSeq(l, Len(l) - n + 1, Len(l)) ELSE l

\* log(msg): append under the lock, then keep the last 200
LogAppend(l, e) == LastN(Append(l, e), LogCap)

(* --------------------------- extract_job ------------------------------- *)
\* What the browser answers for one card: TRUE where the lookup or the
\* operation succeeds, FALSE where it raises.
CardFields ==
  {"link", "href", "company", "location", "scroll", "click", "jsclick",
   "info", "employee", "compdesc", "desc", "sec", "rname", "rurl", "rpres"}

AllCards == [CardFields -> BOOLEAN]

\* job = {"REF": index, "Company": "", ...}
EmptyJob(index) ==
  [REF |-> index, Company |-> "", Industry |-> "", Employees |-> "",
   CompanyDesc |-> "", Title |-> "", Location |-> "", RecruiterName |-> "",
   RecruiterURL |-> "", RecruiterPres |-> "", JobDesc |-> "", URL |-> ""]

Val(ok, v) == IF ok THEN v ELSE ""

\* driver.execute_script(scrollIntoView, card) and the click with its
\* fallback are outside every try block: they raise out of extract_job.
ActivationRaises(card) ==
  \/ ~card["scroll"]
  \/ ~card["click"] /\ ~card["jsclick"]

\* extract_job(driver, card, index): the record, or the exception.
\* Each try block either fills its fields or leaves them as they were.
extract_job(card, index) ==
  LET j0 == EmptyJob(index)
      j1 == IF card["link"]
            THEN [j0 EXCEPT !.Title = "title", !.URL = Val(card["href"], "url")]
            ELSE j0
      j2 == [j1 EXCEPT !.Company = Val(card["company"], "company")]
      j3 == [j2 EXCEPT !.Location = Val(card["location"], "location")]
      j4 == IF card["info"]
            THEN [j3 EXCEPT !.Industry = "industry",
                            !.Employees = Val(card["employee"], "employees")]
            ELSE j3
      j5 == [j4 EXCEPT !.CompanyDesc = Val(card["compdesc"], "compdesc")]
      j6 == [j5 EXCEPT !.JobDesc = Val(card["desc"], "desc")]
      j7 == IF card["sec"]
            THEN [j6 EXCEPT !.RecruiterName = Val(card["rname"], "rname"),
                            !.RecruiterURL = Val(card["rurl"], "rurl"),
                            !.RecruiterPres = Val(card["rpres"], "rpres")]
            ELSE j6
  IN IF ActivationRaises(card)
     THEN [raised |-> TRUE, job |-> None]
     ELSE [raised |-> FALSE, job |-> j7]

\* named cards for the crawl specifications
FullCard == [f \in CardFields |-> TRUE]
StaleCard == [f \in CardFields |-> f # "scroll"]

\* the cards an environment may show
Kinds(k) ==
  CASE k = "all" -> AllCards
    [] k = "full" -> {FullCard}
    [] k = "stale" -> {FullCard, StaleCard}

(* --------------------------- run_scraper ------------------------------- *)
\* SCRAPE_STATE["result"]: None, run_scraper's dict, or the error dict
NoResult == [status |-> "none", total_jobs |-> 0, file |-> "", detail |-> ""]
OkResult(n) == [status |-> "ok", total_jobs |-> n, file |-> "csv", detail |-> ""]
ErrorResult == [status |-> "error", total_jobs |-> 0, file |-> "", detail |-> "exc"]

\* the locals of a run_scraper call that has not begun
IdleCrawl ==
  [pc |-> "idle", max_pages |-> 0, cookie |-> FALSE, current_page |-> 0,
   total_jobs_extracted |-> 0,
   results |-> <<>>, cards |-> 0, i |-> 0, it |-> 0, no_progress |-> 0,
   current_count |-> 0, final_count |-> 0, dom |-> 0, gone |-> FALSE,
   stable_from |-> 0, session |-> "none", quits |-> 0, ret |-> NoResult]

\* run_scraper(search_url, max_pages, cookie_text) is entered
EnterCrawl(mp, ck) == [IdleCrawl EXCEPT !.pc = "setup", !.max_pages = mp, !.cookie = ck]

\* what a find_elements may count: the list only grows while it is shown
\* (env.grow: it may still grow after its first cards appeared);
\* env.vanish lets the page re-render empty once the wait is over
DomReads(c) ==
  IF c.gone THEN {0}
  ELSE (IF c.dom > 0 /\ ~env.grow THEN {c.dom} ELSE (c.dom)..(env.maxCards))
       \cup (IF env.vanish /\ c.pc = "iter" /\ c.it = 0 THEN {0} ELSE {})

\* the outcomes of the browser operation at a point of run_scraper
Faults(point) == IF point \in env.faults THEN {"ok", "raise"} ELSE {"ok"}

\* no call of parse_netscape_cookies or download_csv is under study
NoCall == [fn |-> "none"]

\* the last step was no request handler: no response
NoResp == [op |-> "none", code |-> 0]

\* one step of process p's run_scraper: its locals become c, the shared logs l
CrawlStep(p, c, l) ==
  /\ cr' = [cr EXCEPT ![p] = c]
  /\ logs' = l
  /\ resp' = NoResp
  /\ UNCHANGED <<running, result, task, nsync, call, env>>

\* the logs after log(m) called by process p
Log(p, m) == LogAppend(logs, Entry(p, m))

\* the exception leaves the try block: finally driver.quit() comes next
Raise(c) == [c EXCEPT !.pc = "unwind"]

\* driver = setup_driver(headless=True), before the try block
SetupDriver(p) ==
  /\ cr[p].pc = "setup"
  /\ \E o \in {"ok"} \cup (env.faults \cap {"setup", "leak"}) :
       CrawlStep(p,
         CASE o = "ok" -> [cr[p] EXCEPT !.pc = "cookies", !.session = "open"]
           [] o = "setup" -> [cr[p] EXCEPT !.pc = "raised"]
           [] o = "leak" -> [cr[p] EXCEPT !.pc = "raised", !.session = "open"],
         logs)

\* load_cookies(driver, cookie_text): no text and no file, or the cookies are
\* loaded, or the browser raises on the way
LoadCookies(p) ==
  /\ cr[p].pc = "cookies"
  /\ \E file \in (IF cr[p].cookie THEN {TRUE} ELSE env.cookieFile),
        o \in Faults("cookies") :
       IF ~file
       THEN CrawlStep(p, [cr[p] EXCEPT !.pc = "get"], Log(p, "cookies not found"))
       ELSE IF o = "raise"
       THEN CrawlStep(p, Raise(cr[p]), logs)
       ELSE CrawlStep(p, [cr[p] EXCEPT !.pc = "get"], Log(p, "cookies loaded"))

\* driver.refresh() of load_cookies, driver.get(search_url); current_page = 1
Navigate(p) ==
  /\ cr[p].pc = "get"
  /\ \E o \in Faults("get") :
       CrawlStep(p,
         IF o = "raise" THEN Raise(cr[p])
         ELSE [cr[p] EXCEPT !.pc = "loop", !.current_page = 1, !.total_jobs_extracted = 0],
         logs)

\* (mutant) while True: the page limit is not tested
PageLoopUnbounded(p) ==
  /\ cr[p].pc = "loop"
  /\ CrawlStep(p, [cr[p] EXCEPT !.pc = "hdr2"], Log(p, "rule"))

\* while current_page <= max_pages: the first of the three header lines
PageLoop(p) ==
  /\ cr[p].pc = "loop"
  /\ IF cr[p].current_page <= cr[p].max_pages
     THEN CrawlStep(p, [cr[p] EXCEPT !.pc = "hdr2"], Log(p, "rule"))
     ELSE CrawlStep(p, [cr[p] EXCEPT !.pc = "export"], logs)

PageHeader(p) ==
  /\ cr[p].pc \in {"hdr2", "hdr3"}
  /\ IF cr[p].pc = "hdr2"
     THEN CrawlStep(p, [cr[p] EXCEPT !.pc = "hdr3"], Log(p, "PAGE"))
     ELSE CrawlStep(p, [cr[p] EXCEPT !.pc = "scroll"], Log(p, "rule"))

(* ------------------- scroll_to_bottom_by_last_job ---------------------- *)
\* a find_elements that counts n cards; stable_from records the loop
\* iteration after which the list last changed (0: not since the wait)
Seen(c, n, iter) ==
  [c EXCEPT !.dom = n,
            !.gone = c.gone \/ (n < c.dom),
            !.stable_from = IF n # c.dom THEN iter ELSE c.stable_from]

ScrollStart(p) ==
  /\ cr[p].pc = "scroll"
  /\ CrawlStep(p, [cr[p] EXCEPT !.pc = "wait"], Log(p, "Starting scroll"))

\* WebDriverWait(driver, 30).until(presence_of_element_located(...)):
\* a card is there within the wait, or TimeoutException
ScrollWait(p) ==
  /\ cr[p].pc = "wait"
  /\ \E n \in DomReads(cr[p]) :
       /\ n = 0 => "wait" \in env.faults
       /\ CrawlStep(p,
            IF n = 0 THEN Raise(cr[p])
            ELSE [Seen(cr[p], n, 0) EXCEPT !.pc = "iter", !.it = 0,
                                           !.no_progress = 0, !.stable_from = 0],
            logs)

\* the head of one iteration of for _ in range(max_scrolls), it counting the
\* iterations begun: the first count, the continue on an empty list, the two
\* execute_script calls
ScrollRead(p) ==
  /\ cr[p].pc = "iter"
  /\ IF cr[p].it >= MaxScrolls
     THEN CrawlStep(p, [cr[p] EXCEPT !.pc = "final"], logs)
     ELSE \E n \in DomReads(cr[p]), o \in Faults("scrollop") :
            LET c == [Seen(cr[p], n, cr[p].it + 1) EXCEPT !.current_count = n,
                                                          !.it = @ + 1]
            IN CrawlStep(p,
                 IF n = 0 THEN c
                 ELSE IF o = "raise" THEN Raise(c)
                 ELSE [c EXCEPT !.pc = "iter2"],
                 logs)

\* (mutant) >= for >: a count that did not grow resets the counter
ProgressOnEqual(c, n) == IF n >= c.current_count THEN 0 ELSE c.no_progress + 1

\* no_progress after the second count n of an iteration
Progress(c, n) == IF n > c.current_count THEN 0 ELSE c.no_progress + 1

\* the second count of the iteration, the stagnation counter and its log line
ScrollCompare(p) ==
  /\ cr[p].pc = "iter2"
  /\ \E n \in DomReads(cr[p]) :
       LET c == Seen(cr[p], n, cr[p].it)
           np == Progress(c, n)
       IN CrawlStep(p,
            [c EXCEPT !.no_progress = np,
                      !.pc = IF np >= StagnationLimit THEN "converged" ELSE "iter"],
            Log(p, IF n > c.current_count THEN "new jobs" ELSE "No new jobs"))

\* if no_progress >= 12: log, break
ScrollConverged(p) ==
  /\ cr[p].pc = "converged"
  /\ CrawlStep(p, [cr[p] EXCEPT !.pc = "final"], Log(p, "No more jobs loading"))

\* final_count = len(driver.find_elements(...)); log; return final_count
ScrollFinal(p) ==
  /\ cr[p].pc = "final"
  /\ \E n \in DomReads(cr[p]) :
       CrawlStep(p,
         [Seen(cr[p], n, cr[p].it + 1) EXCEPT !.pc = "cards", !.final_count = n],
         Log(p, "PAGE FULLY LOADED"))

(* ------------------ the page loop of run_scraper ------------------------ *)
\* cards = driver.find_elements(...); log(Extracting ...)
FindCards(p) ==
  /\ cr[p].pc = "cards"
  /\ \E n \in DomReads(cr[p]), o \in Faults("find") :
       IF o = "raise"
       THEN CrawlStep(p, Raise(cr[p]), logs)
       ELSE CrawlStep(p,
              [Seen(cr[p], n, cr[p].it + 1) EXCEPT !.pc = "extract", !.cards = n, !.i = 1],
              Log(p, "Extracting"))

\* (mutant) the index restarts at 1 on every page
RefOfPageLocal(c) == c.i

\* the index handed to extract_job for the i-th card of the page
RefOf(c) == c.total_jobs_extracted + c.i

\* (mutant) no try around extract_job: its exception leaves the page loop
ExtractCardAborts(p) ==
  /\ cr[p].pc = "extract"
  /\ cr[p].i <= cr[p].cards
  /\ \E card \in Kinds(env.kinds) :
       LET r == extract_job(card, RefOf(cr[p]))
       IN IF r.raised
          THEN CrawlStep(p, Raise(cr[p]), logs)
          ELSE CrawlStep(p,
                 [cr[p] EXCEPT !.i = @ + 1, !.results = Append(@, r.job)],
                 Log(p, "job"))

\* one turn of for i, card in enumerate(cards, 1): the record is appended
\* and logged, or the exception is logged and the card skipped
ExtractCard(p) ==
  /\ cr[p].pc = "extract"
  /\ cr[p].i <= cr[p].cards
  /\ \E card \in Kinds(env.kinds) :
       LET r == extract_job(card, RefOf(cr[p]))
       IN IF r.raised
          THEN CrawlStep(p, [cr[p] EXCEPT !.i = @ + 1], Log(p, "Skipped job"))
          ELSE CrawlStep(p,
                 [cr[p] EXCEPT !.i = @ + 1, !.results = Append(@, r.job)],
                 Log(p, "job"))

\* total_jobs_extracted += len(cards); go_to_next_page logs its attempt
NextAttempt(p) ==
  /\ cr[p].pc = "extract"
  /\ cr[p].i > cr[p].cards
  /\ CrawlStep(p,
       [cr[p] EXCEPT !.pc = "nextwait", !.total_jobs_extracted = @ + cr[p].cards, !.i = 0],
       Log(p, "Attempting next page"))

\* (mutant) only TimeoutException is caught: another exception propagates
NextPageErrorRaises(p) ==
  /\ cr[p].pc = "nextwait"
  /\ \E o \in env.next :
       CASE o = "clicked" ->
              CrawlStep(p, [cr[p] EXCEPT !.pc = "nextsettle"], Log(p, "Next button clicked"))
         [] o = "timeout" ->
              CrawlStep(p, [cr[p] EXCEPT !.pc = "nomore"], Log(p, "No Next button"))
         [] o = "error" ->
              CrawlStep(p, Raise(cr[p]), logs)

\* go_to_next_page up to its first log: the button is clicked (directly or
\* by the fallback), or the wait times out, or another exception is caught
NextPage(p) ==
  /\ cr[p].pc = "nextwait"
  /\ \E o \in env.next :
       CASE o = "clicked" ->
              CrawlStep(p, [cr[p] EXCEPT !.pc = "nextsettle"], Log(p, "Next button clicked"))
         [] o = "timeout" ->
              CrawlStep(p, [cr[p] EXCEPT !.pc = "nomore"], Log(p, "No Next button"))
         [] o = "error" ->
              CrawlStep(p, [cr[p] EXCEPT !.pc = "nomore"], Log(p, "Error clicking next"))

\* after the click: window.scrollBy, return current_page + 1; the caller
\* sets current_page. An exception here is caught as any other.
NextSettle(p) ==
  /\ cr[p].pc = "nextsettle"
  /\ \E o \in Faults("settle") :
       IF o = "raise"
       THEN CrawlStep(p, [cr[p] EXCEPT !.pc = "nomore"], Log(p, "Error clicking next"))
       ELSE CrawlStep(p,
              [cr[p] EXCEPT !.pc = "loop", !.current_page = @ + 1, !.cards = 0,
                            !.it = 0, !.no_progress = 0, !.current_count = 0,
                            !.final_count = 0, !.dom = 0, !.gone = FALSE,
                            !.stable_from = 0],
              logs)

\* if not next_page: log, break
NoMorePages(p) ==
  /\ cr[p].pc = "nomore"
  /\ CrawlStep(p, [cr[p] EXCEPT !.pc = "export"], Log(p, "No more pages"))

\* df.to_csv(...); log(SUCCESS); the dict to return
Export(p) ==
  /\ cr[p].pc = "export"
  /\ \E o \in Faults("export") :
       IF o = "raise"
       THEN CrawlStep(p, Raise(cr[p]), logs)
       ELSE CrawlStep(p,
              [cr[p] EXCEPT !.pc = "quit", !.ret = OkResult(Len(cr[p].results))],
              Log(p, "SUCCESS"))

\* finally: driver.quit(), on the way out with the dict or with the exception
Quit(p) ==
  /\ cr[p].pc \in {"quit", "unwind"}
  /\ \E o \in Faults("quit") :
       CrawlStep(p,
         [cr[p] EXCEPT !.session = "quit", !.quits = @ + 1,
                       !.pc = IF cr[p].pc = "quit" /\ o = "ok" THEN "returned" ELSE "raised",
                       !.ret = IF cr[p].pc = "quit" /\ o = "ok" THEN @ ELSE NoResult],
         logs)

\* every step of run_scraper
Crawl(p) ==
  \/ SetupDriver(p) \/ LoadCookies(p) \/ Navigate(p)
  \/ PageLoop(p) \/ PageHeader(p)
  \/ ScrollStart(p) \/ ScrollWait(p) \/ ScrollRead(p) \/ ScrollCompare(p)
  \/ ScrollConverged(p) \/ ScrollFinal(p)
  \/ FindCards(p) \/ ExtractCard(p) \/ NextAttempt(p) \/ NextPage(p)
  \/ NextSettle(p) \/ NoMorePages(p) \/ Export(p) \/ Quit(p)

(* ------------------ run_scraper_task and the endpoints ------------------ *)
\* the id of the next background task to be scheduled
NextRun == Cardinality({r \in Runs : task[r] # "none"}) + 1

\* (mutant) the conflict check is missing
ConflictUnchecked == FALSE

\* if SCRAPE_STATE["running"]: raise HTTPException(status_code=409, ...)
Conflict == running

\* (mutant) the start appends its line instead of resetting the logs
StartLogsAppended(r) == Append(logs, Entry(r, "Starting scrape..."))

\* SCRAPE_STATE["logs"] = ["Starting scrape..."]
StartLogs(r) == <<Entry(r, "Starting scrape...")>>

\* POST /scrape_start: under the lock, the conflict check and the reset;
\* then background_tasks.add_task(run_scraper_task, ...)
ScrapeStart ==
  \E mp \in env.pages, ck \in env.cookieIn :
    IF Conflict
    THEN /\ resp' = [op |-> "scrape_start", code |-> 409]
         /\ UNCHANGED <<running, logs, result, task, cr, nsync, call, env>>
    ELSE /\ NextRun <= env.runs
         /\ logs' = StartLogs(NextRun)
         /\ result' = NoResult
         /\ running' = TRUE
         /\ task' = [task EXCEPT ![NextRun] = "pending"]
         /\ cr' = [cr EXCEPT ![NextRun] = [IdleCrawl EXCEPT !.max_pages = mp, !.cookie = ck]]
         /\ resp' = [op |-> "scrape_start", code |-> 200]
         /\ UNCHANGED <<nsync, call, env>>

\* run_scraper_task begins: the first with state_lock block, then run_scraper
TaskBegin(r) ==
  /\ task[r] = "pending"
  /\ running' = TRUE
  /\ logs' = <<>>
  /\ result' = NoResult
  /\ task' = [task EXCEPT ![r] = "running"]
  /\ cr' = [cr EXCEPT ![r] = EnterCrawl(cr[r].max_pages, cr[r].cookie)]
  /\ resp' = NoResp
  /\ UNCHANGED <<nsync, call, env>>

\* run_scraper returned: SCRAPE_STATE["result"] = result
TaskResult(r) ==
  /\ task[r] = "running"
  /\ cr[r].pc = "returned"
  /\ result' = cr[r].ret
  /\ task' = [task EXCEPT ![r] = "finishing"]
  /\ resp' = NoResp
  /\ UNCHANGED <<running, logs, cr, nsync, call, env>>

\* (mutant) the exception is logged but no result is stored
TaskErrorNoResult(r) ==
  /\ task[r] = "running"
  /\ cr[r].pc = "raised"
  /\ logs' = Append(logs, Entry(r, "ERROR"))
  /\ task' = [task EXCEPT ![r] = "finishing"]
  /\ resp' = NoResp
  /\ UNCHANGED <<running, result, cr, nsync, call, env>>

\* except Exception as e: the error dict, and the line appended to the logs
\* without the 200 cut
TaskError(r) ==
  /\ task[r] = "running"
  /\ cr[r].pc = "raised"
  /\ result' = ErrorResult
  /\ logs' = Append(logs, Entry(r, "ERROR"))
  /\ task' = [task EXCEPT ![r] = "finishing"]
  /\ resp' = NoResp
  /\ UNCHANGED <<running, cr, nsync, call, env>>

\* (mutant) running is cleared at the end of the try body, not in finally
TaskFinallyOnReturn(r) ==
  /\ task[r] = "finishing"
  /\ cr[r].pc = "returned"
  /\ running' = FALSE
  /\ task' = [task EXCEPT ![r] = "done"]
  /\ cr' = [cr EXCEPT ![r] = [IdleCrawl EXCEPT !.pc = cr[r].pc]]
  /\ resp' = NoResp
  /\ UNCHANGED <<logs, result, nsync, call, env>>

\* finally: SCRAPE_STATE["running"] = False; the task is over, and of its
\* run_scraper call only the way it ended (returned, raised) is kept
TaskFinally(r) ==
  /\ task[r] = "finishing"
  /\ running' = FALSE
  /\ task' = [task EXCEPT ![r] = "done"]
  /\ cr' = [cr EXCEPT ![r] = [IdleCrawl EXCEPT !.pc = cr[r].pc]]
  /\ resp' = NoResp
  /\ UNCHANGED <<logs, result, nsync, call, env>>

\* GET /scrape_status: the snapshot taken under the lock
ScrapeStatus ==
  /\ resp' = [op |-> "scrape_status", code |-> 200,
              body |-> [running |-> running, logs |-> logs, result |-> result]]
  /\ UNCHANGED <<running, logs, result, task, cr, nsync, call, env>>

\* POST /scrape is received: scrape_linkedin calls run_scraper
SyncRequest ==
  /\ cr[SyncId].pc = "idle"
  /\ nsync < env.sync
  /\ \E mp \in env.syncPages, ck \in env.cookieIn :
       cr' = [cr EXCEPT ![SyncId] = EnterCrawl(mp, ck)]
  /\ nsync' = nsync + 1
  /\ resp' = NoResp
  /\ UNCHANGED <<running, logs, result, task, call, env>>

\* scrape_linkedin returns the dict, or the 500 response on an exception
SyncReturn ==
  /\ cr[SyncId].pc \in {"returned", "raised"}
  /\ resp' = IF cr[SyncId].pc = "returned"
             THEN [op |-> "scrape", code |-> 200, body |-> cr[SyncId].ret]
             ELSE [op |-> "scrape", code |-> 500, body |-> ErrorResult]
  /\ cr' = [cr EXCEPT ![SyncId] = IdleCrawl]
  /\ UNCHANGED <<running, logs, result, task, nsync, call, env>>

(* ------------------------- str, as Python has it ------------------------ *)
\* a str is the sequence of its characters
TAB == "\t"
NL == "\n"
SP == " "
Whitespace == {SP, TAB, NL, "\r"}

Last(s) == s[Len(s)]
Front(s) == SubSeq(s, 1, Len(s) - 1)

RECURSIVE LStrip(_, _)
\* s.lstrip(chars)
LStrip(s, chars) ==
  IF s # <<>> /\ Head(s) \in chars THEN LStrip(Tail(s), chars) ELSE s

RECURSIVE RStrip(_, _)
\* s.rstrip(chars)
RStrip(s, chars) ==
  IF s # <<>> /\ Last(s) \in chars THEN RStrip(Front(s), chars) ELSE s

\* s.strip()
Strip(s) == RStrip(LStrip(s, Whitespace), Whitespace)

RECURSIVE Split(_, _)
\* s.split(sep): the pieces between the occurrences of sep, empty ones kept
Split(s, sep) ==
  IF \A i \in 1..Len(s) : s[i] # sep
  THEN <<s>>
  ELSE LET i == CHOOSE i \in 1..Len(s) :
                  s[i] = sep /\ \A j \in 1..(i - 1) : s[j] # sep
       IN <<SubSeq(s, 1, i - 1)>> \o Split(SubSeq(s, i + 1, Len(s)), sep)

\* text.splitlines(): the lines between the line breaks; a line break at
\* the end of the text opens no further line
SplitLines(text) ==
  IF text = <<>> THEN <<>>
  ELSE LET parts == Split(text, NL)
       IN IF Last(parts) = <<>> THEN Front(parts) ELSE parts

LowerCase == <<"a", "b", "c", "d", "e", "f", "g", "h", "i", "j", "k", "l", "m",
               "n", "o", "p", "q", "r", "s", "t", "u", "v", "w", "x", "y", "z">>
UpperCase == <<"A", "B", "C", "D", "E", "F", "G", "H", "I", "J", "K", "L", "M",
               "N", "O", "P", "Q", "R", "S", "T", "U", "V", "W", "X", "Y", "Z">>

\* s.upper()
Upper(s) ==
  [k \in 1..Len(s) |->
     IF \E i \in 1..26 : LowerCase[i] = s[k]
     THEN UpperCase[CHOOSE i \in 1..26 : LowerCase[i] = s[k]]
     ELSE s[k]]

Digits == <<"0", "1", "2", "3", "4", "5", "6", "7", "8", "9">>
IsDigit(ch) == \E i \in 1..10 : Digits[i] = ch
DigitVal(ch) == (CHOOSE i \in 1..10 : Digits[i] = ch) - 1

RECURSIVE DigitsVal(_)
DigitsVal(d) == IF d = <<>> THEN 0 ELSE DigitsVal(Front(d)) * 10 + DigitVal(Last(d))

\* int(s): surrounding whitespace dropped, an optional sign, then one or
\* more decimal digits; anything else is a ValueError (ok = FALSE)
IntOf(s) ==
  LET t == Strip(s)
      signed == t # <<>> /\ Head(t) \in {"+", "-"}
      d == IF signed THEN Tail(t) ELSE t
      ok == d # <<>> /\ \A i \in 1..Len(d) : IsDigit(d[i])
  IN [ok |-> ok,
      val |-> IF ~ok THEN 0
              ELSE IF signed /\ Head(t) = "-" THEN 0 - DigitsVal(d) ELSE DigitsVal(d)]

(* ----------------------- parse_netscape_cookies ------------------------ *)
\* the dict built for one line; the key "expiry" is there or not
Cookie(parts) ==
  LET domain == parts[1]
      path == parts[3]
      secure == parts[4]
      expiry == parts[5]
      name == parts[6]
      value == parts[7]
      n == IntOf(expiry)
      set == expiry # <<"0">> /\ n.ok
  IN [name |-> Strip(name), value |-> Strip(value),
      domain |-> LStrip(domain, {"."}), path |-> path,
      secure |-> (Upper(secure) = <<"T", "R", "U", "E">>),
      httpOnly |-> FALSE, sameSite |-> "Lax",
      hasExpiry |-> set, expiry |-> IF set THEN n.val ELSE 0]

\* the line is skipped: blank or comment after strip(), or too few parts
Skipped(raw_line) ==
  LET line == Strip(raw_line)
  IN \/ line = <<>>
     \/ Head(line) = "#"
     \/ Len(Split(line, TAB)) < MinFields

\* parse_netscape_cookies(text) is called
ParseCall(text) ==
  [fn |-> "parse_netscape_cookies", pc |-> "splitlines", text |-> text,
   lines |-> <<>>, k |-> 0, cookies |-> <<>>, from |-> <<>>]

\* cookies = []; text.splitlines()
ParseSplit ==
  /\ call.fn = "parse_netscape_cookies"
  /\ call.pc = "splitlines"
  /\ call' = [call EXCEPT !.pc = "line", !.lines = SplitLines(call.text), !.k = 1]
  /\ UNCHANGED <<running, logs, result, task, cr, resp, nsync, env>>

\* one turn of for raw_line in ...: continue, or the cookie is appended;
\* from records the number of the line each cookie came from
ParseLine ==
  /\ call.fn = "parse_netscape_cookies"
  /\ call.pc = "line"
  /\ call.k <= Len(call.lines)
  /\ LET raw_line == call.lines[call.k]
     IN call' = IF Skipped(raw_line)
                THEN [call EXCEPT !.k = @ + 1]
                ELSE [call EXCEPT !.k = @ + 1,
                        !.cookies = Append(@, Cookie(Split(Strip(raw_line), TAB))),
                        !.from = Append(@, call.k)]
  /\ UNCHANGED <<running, logs, result, task, cr, resp, nsync, env>>

\* return cookies
ParseReturn ==
  /\ call.fn = "parse_netscape_cookies"
  /\ call.pc = "line"
  /\ call.k > Len(call.lines)
  /\ call' = [call EXCEPT !.pc = "returned"]
  /\ UNCHANGED <<running, logs, result, task, cr, resp, nsync, env>>

(* ---------------------------- download_csv ----------------------------- *)
\* the path separators of os.path: posixpath, or ntpath
Seps(platform) == IF platform = "nt" THEN {"/", "\\"} ELSE {"/"}

\* (mutant) the name is used as it came
BasenameKept(platform, p) == p

\* os.path.basename(p): what follows the last separator
Basename(platform, p) ==
  IF \A i \in 1..Len(p) : p[i] \notin Seps(platform)
  THEN p
  ELSE LET i == CHOOSE i \in 1..Len(p) :
                  /\ p[i] \in Seps(platform)
                  /\ \A j \in (i + 1)..Len(p) : p[j] \notin Seps(platform)
       IN SubSeq(p, i + 1, Len(p))

RECURSIVE Components(_, _)
\* the components of a path, between its separators
Components(platform, p) ==
  IF \A i \in 1..Len(p) : p[i] \notin Seps(platform)
  THEN <<p>>
  ELSE LET i == CHOOSE i \in 1..Len(p) :
                  /\ p[i] \in Seps(platform)
                  /\ \A j \in 1..(i - 1) : p[j] \notin Seps(platform)
       IN <<SubSeq(p, 1, i - 1)>> \o Components(platform, SubSeq(p, i + 1, Len(p)))

\* The file system around BASE_DIR: BASE_DIR may hold a regular file x and
\* an entry a (a file or a directory, which may hold a file x of its own);
\* the parent of BASE_DIR may hold a file x. Nodes: "up" (above the
\* parent), "parent", "base", "a" (the directory), "base/x", "base/a" (the
\* file), "a/x", "parent/x", and "none" where nothing exists.
IsDir(node) == node \in {"up", "parent", "base", "a"}
IsFile(node) == node \in {"base/x", "base/a", "a/x", "parent/x"}

\* one component of a path looked up from a node
Lookup(fs, node, comp) ==
  IF ~IsDir(node) THEN "none"
  ELSE IF comp \in {<<>>, <<".">>} THEN node
  ELSE IF comp = <<".", ".">>
  THEN (CASE node = "a" -> "base"
          [] node = "base" -> "parent"
          [] OTHER -> "up")
  ELSE IF comp = <<"x">>
  THEN (CASE node = "base" /\ fs.x -> "base/x"
          [] node = "a" /\ fs.ax -> "a/x"
          [] node = "parent" /\ fs.px -> "parent/x"
          [] OTHER -> "none")
  ELSE IF comp = <<"a">> /\ node = "base"
  THEN (CASE fs.a = "dir" -> "a"
          [] fs.a = "file" -> "base/a"
          [] OTHER -> "none")
  ELSE "none"

RECURSIVE Walk(_, _, _)
Walk(fs, node, comps) ==
  IF comps = <<>> THEN node
  ELSE Walk(fs, Lookup(fs, node, Head(comps)), Tail(comps))

\* what os.path.join(BASE_DIR, name) names: a name that begins with a
\* separator replaces BASE_DIR
Resolve(platform, fs, name) ==
  IF name # <<>> /\ Head(name) \in Seps(platform)
  THEN Walk(fs, "up", Components(platform, name))
  ELSE Walk(fs, "base", Components(platform, name))

\* download_csv(filename) is called
DownloadCall(platform, fs, filename) ==
  [fn |-> "download_csv", pc |-> "basename", platform |-> platform, fs |-> fs,
   filename |-> filename, safe_name |-> <<>>, node |-> "none", code |-> 0]

\* safe_name = os.path.basename(filename); file_path = os.path.join(...)
DownloadSanitize ==
  /\ call.fn = "download_csv"
  /\ call.pc = "basename"
  /\ LET safe_name == Basename(call.platform, call.filename)
     IN call' = [call EXCEPT !.pc = "exists", !.safe_name = safe_name,
                             !.node = Resolve(call.platform, call.fs, safe_name)]
  /\ UNCHANGED <<running, logs, result, task, cr, resp, nsync, env>>

\* if not os.path.exists(file_path): 404; else FileResponse(file_path, ...)
DownloadRespond ==
  /\ call.fn = "download_csv"
  /\ call.pc = "exists"
  /\ call' = [call EXCEPT !.pc = "returned",
                          !.code = IF call.node = "none" THEN 404 ELSE 200]
  /\ UNCHANGED <<running, logs, result, task, cr, resp, nsync, env>>

(* --------------------------- specifications ---------------------------- *)
\* the state at process start, in an environment e, with a call c of a
\* helper under study
InitWith(e, c) ==
  /\ running = FALSE
  /\ logs = <<>>
  /\ result = NoResult
  /\ task = [r \in Runs |-> "none"]
  /\ cr = [p \in Procs |-> IdleCrawl]
  /\ resp = NoResp
  /\ nsync = 0
  /\ call = c
  /\ env = e

\* the state at process start, in an environment e
InitIn(e) == InitWith(e, NoCall)

AllFaults ==
  {"setup", "leak", "cookies", "get", "wait", "scrollop", "find", "settle",
   "export", "quit"}

\* The polling flow: starts, status reads and background runs.
ServiceEnv ==
  [runs |-> MaxRuns, sync |-> 0, pages |-> 0..MaxPagesIn, syncPages |-> {},
   cookieIn |-> BOOLEAN, cookieFile |-> {FALSE},
   maxCards |-> 1, kinds |-> "stale", grow |-> FALSE, vanish |-> FALSE,
   next |-> {"timeout", "clicked", "error"}, faults |-> AllFaults]

Init == InitIn(ServiceEnv)

Next ==
  \/ ScrapeStart
  \/ ScrapeStatus
  \/ \E r \in Runs : TaskBegin(r)
  \/ \E p \in Procs : Crawl(p)
  \/ \E r \in Runs : TaskResult(r)
  \/ \E r \in Runs : TaskError(r)
  \/ \E r \in Runs : TaskFinally(r)

Spec == Init /\ [][Next]_vars

\* The polling flow together with the direct endpoint POST /scrape.
DirectEnv ==
  [runs |-> 1, sync |-> MaxSyncRuns, pages |-> {1}, syncPages |-> {0},
   cookieIn |-> {FALSE}, cookieFile |-> {FALSE},
   maxCards |-> 1, kinds |-> "full", grow |-> FALSE, vanish |-> FALSE,
   next |-> {"timeout", "clicked"}, faults |-> {"export"}]

InitDirect == InitIn(DirectEnv)

NextDirect == Next \/ SyncRequest \/ SyncReturn

SpecDirect == InitDirect /\ [][NextDirect]_vars

\* the background task runs to its end: the thread pool keeps executing it
Background ==
  \E r \in Runs :
    TaskBegin(r) \/ Crawl(r) \/ TaskResult(r) \/ TaskError(r) \/ TaskFinally(r)

SpecLive == Init /\ [][Next]_vars /\ WF_vars(Background)

\* One long background run: enough pages to log more than 200 lines.
LongEnv ==
  [runs |-> 1, sync |-> 0, pages |-> {LongPages}, syncPages |-> {},
   cookieIn |-> {FALSE}, cookieFile |-> {FALSE},
   maxCards |-> 1, kinds |-> "full", grow |-> FALSE, vanish |-> FALSE,
   next |-> {"timeout", "clicked"}, faults |-> {"export"}]

InitLong == InitIn(LongEnv)

SpecLong == InitLong /\ [][Next]_vars

\* One direct crawl: pages, cards that extract or are stale, every fault.
CrawlEnv ==
  [runs |-> 0, sync |-> 1, pages |-> {}, syncPages |-> 0..(MaxPagesIn + 1),
   cookieIn |-> BOOLEAN, cookieFile |-> BOOLEAN,
   maxCards |-> MaxCards,
   kinds |-> "stale", grow |-> FALSE, vanish |-> FALSE,
   next |-> {"timeout", "clicked", "error"}, faults |-> AllFaults]

InitCrawl == InitIn(CrawlEnv)

NextCrawl ==
  \/ SyncRequest
  \/ \E p \in Procs : Crawl(p)
  \/ SyncReturn

SpecCrawl == InitCrawl /\ [][NextCrawl]_vars

\* One direct crawl of one page with one card, the card answering each
\* lookup in every possible way.
ExtractEnv ==
  [runs |-> 0, sync |-> 1, pages |-> {}, syncPages |-> {1},
   cookieIn |-> {TRUE}, cookieFile |-> {FALSE},
   maxCards |-> 1, kinds |-> "all", grow |-> FALSE, vanish |-> FALSE,
   next |-> {"timeout", "clicked"}, faults |-> {"get"}]

InitExtract == InitIn(ExtractEnv)

SpecExtract == InitExtract /\ [][NextCrawl]_vars

\* One direct crawl of one page whose list grows while it is scrolled, or is
\* re-rendered empty after the wait.
ScrollEnv ==
  [runs |-> 0, sync |-> 1, pages |-> {}, syncPages |-> {1},
   cookieIn |-> {TRUE}, cookieFile |-> {FALSE},
   maxCards |-> MaxCards + 1, kinds |-> "full", grow |-> TRUE, vanish |-> TRUE,
   next |-> {"timeout", "clicked"}, faults |-> {"wait"}]

InitScroll == InitIn(ScrollEnv)

SpecScroll == InitScroll /\ [][NextCrawl]_vars

\* Cookie-export texts: up to MaxLines lines, each a well-formed line with
\* one field varied, or with fields missing or added, or a comment, with or
\* without blanks around it.
BaseFields ==
  <<<<".", "d">>, <<"F">>, <<"/">>, <<"T", "R", "U", "E">>, <<"1", "2">>,
    <<"n">>, <<"v">>>>

Domains == {<<"d">>, <<".", ".", "d">>, <<>>, <<"#", "d">>}
Secures == {<<"t", "r", "u", "e">>, <<"F">>}
Expiries ==
  {<<"0">>, <<"0", "0">>, <<"-", "0">>, <<"-", "5">>, <<"+", "7">>, <<SP, "3">>,
   <<"x">>, <<"1", "x">>, <<>>}
Values == {<<>>, <<SP>>, <<SP, "v">>}

FieldSeqs ==
  {[BaseFields EXCEPT ![1] = f] : f \in Domains}
    \cup {[BaseFields EXCEPT ![4] = f] : f \in Secures}
    \cup {[BaseFields EXCEPT ![5] = f] : f \in Expiries}
    \cup {[BaseFields EXCEPT ![7] = f] : f \in Values}
    \cup {SubSeq(BaseFields, 1, n) : n \in 0..MinFields}
    \cup {BaseFields \o <<<<"x">>>>, <<<<"#", "c">>>>}

RECURSIVE Join(_, _)
\* sep.join(pieces)
Join(pieces, sep) ==
  IF pieces = <<>> THEN <<>>
  ELSE IF Len(pieces) = 1 THEN pieces[1]
  ELSE pieces[1] \o <<sep>> \o Join(Tail(pieces), sep)

Pads == {<<>>, <<SP>>}

LineSet == {lead \o Join(f, TAB) \o trail : f \in FieldSeqs, lead \in Pads, trail \in Pads}

Texts ==
  {<<>>} \cup
  UNION {{Join(ls, NL) \o end : ls \in [1..n -> LineSet], end \in {<<>>, <<NL>>}} :
           n \in 1..MaxLines}

NoEnv ==
  [runs |-> 0, sync |-> 0, pages |-> {}, syncPages |-> {},
   cookieIn |-> {}, cookieFile |-> {},
   maxCards |-> 0, kinds |-> "full", grow |-> FALSE, vanish |-> FALSE,
   next |-> {}, faults |-> {}]

\* parse_netscape_cookies called on each of these texts
InitCookies == \E t \in Texts : InitWith(NoEnv, ParseCall(t))

NextCookies == ParseSplit \/ ParseLine \/ ParseReturn

SpecCookies == InitCookies /\ [][NextCookies]_vars

\* Requested names of up to MaxName characters, on either platform, with
\* every content of the directories around BASE_DIR.
NameChars == {"/", "\\", ".", "a", "x"}

Names == UNION {[1..n -> NameChars] : n \in 1..MaxName}

FileSystems ==
  {fs \in [x : BOOLEAN, a : {"none", "file", "dir"}, ax : BOOLEAN, px : BOOLEAN] :
     fs.ax => fs.a = "dir"}

InitDownload ==
  \E platform \in {"posix", "nt"}, fs \in FileSystems, filename \in Names :
    InitWith(NoEnv, DownloadCall(platform, fs, filename))

NextDownload == DownloadSanitize \/ DownloadRespond

SpecDownload == InitDownload /\ [][NextDownload]_vars

(* ------------------------------ claims --------------------------------- *)
\* the latest background run accepted (0: none yet)
Latest == NextRun - 1

Accepted(r) == task[r] \in {"pending", "running", "finishing"}

\* C1: under every interleaving of starts, status reads and completions, at
\* most one background task is accepted and not yet over, and running is
\* true from the acceptance of a start to the end of that run.
C1_SingleFlight ==
  /\ Cardinality({r \in Runs : Accepted(r)}) <= 1
  /\ \A r \in Runs : Accepted(r) => running

\* a second run is crawling after the first one ended, and a concurrent
\* start has just been refused
C1_Witness ==
  /\ task[1] = "done"
  /\ task[2] = "running"
  /\ cr[2].pc = "iter2"
  /\ resp.op = "scrape_start" /\ resp.code = 409

\* C2: a scrape_start made while running is true answers 409, schedules no
\* task and leaves running, logs and result as they were.
C2_ConflictRejected ==
  [][(running /\ resp'.op = "scrape_start")
       => (resp'.code = 409 /\ UNCHANGED <<running, logs, result, task, cr>>)]_vars

\* a start was refused while the run had a result and several log lines
C2_Witness ==
  /\ resp.op = "scrape_start" /\ resp.code = 409
  /\ running
  /\ result.status = "ok"
  /\ Len(logs) >= 3

\* C3 as stated: no status snapshot shows a result together with running.
C3_SnapshotAtomic ==
  resp.op = "scrape_status"
    => ~(resp.body.result # NoResult /\ resp.body.running)

\* C3 amended: the result is stored first and running is cleared in a later
\* step, so a snapshot that shows running = false after a start was accepted
\* shows the result of the run, by success or by exception.
C3_ResultBeforeIdle ==
  (resp.op = "scrape_status" /\ ~resp.body.running /\ Latest > 0)
    => /\ resp.body.result # NoResult
       /\ cr[Latest].pc = "raised" => resp.body.result = ErrorResult
       /\ cr[Latest].pc = "returned" => resp.body.result.status = "ok"

\* a snapshot taken after a run that raised: idle, with the error result
C3_Witness ==
  /\ resp.op = "scrape_status"
  /\ ~resp.body.running
  /\ resp.body.result = ErrorResult
  /\ task[1] = "done"

\* C4: once a start is accepted, no log entry and no result of an earlier
\* run is left in the job state (and so in no status snapshot): the logs
\* hold only lines of the latest run, the result is empty until that run
\* stores its own.
C4_FreshAfterStart ==
  /\ \A k \in 1..Len(logs) : logs[k].run \in {Latest, SyncId}
  /\ \A r \in Runs : task[r] \in {"pending", "running"} => result = NoResult
  /\ resp.op = "scrape_status" =>
       \A k \in 1..Len(resp.body.logs) : resp.body.logs[k].run \in {Latest, SyncId}

\* the second start has just been accepted, after a first run that left
\* log lines and a result
C4_Witness ==
  /\ task[1] = "done"
  /\ task[2] = "pending"
  /\ logs = StartLogs(2)
  /\ result = NoResult
  /\ resp.op = "scrape_start" /\ resp.code = 200

\* C5 as stated: the logs never hold more than 200 entries.
C5_LogsBounded == Len(logs) <= LogCap

\* C6: every accepted background run ends, with running = false and a
\* result stored; a run that raised ends with the error result and its
\* detail, the task itself ends normally, and a start is accepted again.
C6_RunEnds ==
  \A r \in Runs :
    (task[r] = "pending")
      ~> (/\ task[r] = "done"
          /\ ~running
          /\ ~Conflict
          /\ result # NoResult
          /\ cr[r].pc = "raised" => (result.status = "error" /\ result.detail # "")
          /\ cr[r].pc = "returned" => result.status = "ok")

\* a start has been accepted after a run that raised
C6_Witness ==
  /\ task[1] = "done"
  /\ cr[1].pc = "raised"
  /\ task[2] = "pending"
  /\ running

\* C7 as stated: no step of a synchronous run changes running, logs or
\* result.
C7_SyncBypassesJobState ==
  [][cr'[SyncId] # cr[SyncId] => UNCHANGED <<running, logs, result>>]_vars

\* C8 as stated: when a crawl returns, the REF values of its records are
\* 1, 2, ..., the number of cards of its pages.
C8_RefsContiguous ==
  \A p \in Procs :
    cr[p].pc = "returned" =>
      /\ Len(cr[p].results) = cr[p].total_jobs_extracted
      /\ \A k \in 1..Len(cr[p].results) : cr[p].results[k].REF = k

\* C9 as stated: every card handed to extract_job has yielded one record.
C9_OneRecordPerCard ==
  \A p \in Procs :
    cr[p].pc = "extract" =>
      /\ Len(cr[p].results) = RefOf(cr[p]) - 1
      /\ \A k \in 1..Len(cr[p].results) : cr[p].results[k].REF = k

\* C10: the loop of scroll_to_bottom_by_last_job never begins more than
\* max_scrolls iterations; while the list is shown the loop is never more
\* than 12 iterations past the last growth; when the list stopped growing
\* after fewer than 12 iterations, the function has ended by convergence and
\* returned the count of the list.
C10_ScrollTerminates ==
  \A p \in Procs :
    /\ cr[p].it <= MaxScrolls
    /\ (cr[p].pc \in {"iter", "iter2", "converged"} /\ ~cr[p].gone)
         => cr[p].it <= cr[p].stable_from + StagnationLimit
    /\ (cr[p].pc = "cards" /\ ~cr[p].gone /\ cr[p].stable_from < StagnationLimit)
         => /\ cr[p].no_progress >= StagnationLimit
            /\ cr[p].it <= cr[p].stable_from + StagnationLimit
            /\ cr[p].final_count = cr[p].dom

\* the list grew in the 11th iteration and not after: convergence in the 23rd
C10_Witness ==
  /\ cr[SyncId].pc = "cards"
  /\ ~cr[SyncId].gone
  /\ cr[SyncId].stable_from = 11
  /\ cr[SyncId].it = 23
  /\ cr[SyncId].final_count = 2

\* the log holds a line m of process p
Logged(p, m) == \E k \in 1..Len(logs) : logs[k] = Entry(p, m)

\* C11: when go_to_next_page does not advance after page p (no Next button
\* within the wait, or another exception while advancing, before or after
\* the click), no further page is begun and no record is added or lost: the
\* crawl goes to the export with current_page = p, and the dict it returns
\* has status ok and total_jobs equal to the number of records extracted on
\* the pages 1..p.
C11_AdvanceFailureEndsCrawl ==
  /\ [][\A p \in Procs :
          LET c == cr[p]
              d == cr'[p]
          IN /\ (c.pc \in {"nextwait", "nextsettle"} /\ d # c)
                  => /\ d.pc \in {"nextsettle", "nomore", "loop"}
                     /\ d.pc = "loop" => c.pc = "nextsettle"
                     /\ d.results = c.results
             /\ (c.pc = "nomore" /\ d # c)
                  => /\ d.pc = "export"
                     /\ d.results = c.results
                     /\ d.current_page = c.current_page
             /\ (c.pc = "export" /\ d # c)
                  => /\ d.results = c.results
                     /\ d.current_page = c.current_page
                     /\ \/ d.pc = "quit" /\ d.ret = OkResult(Len(c.results))
                        \/ d.pc = "unwind"
             /\ (c.pc = "quit" /\ d # c)
                  => /\ d.results = c.results
                     /\ \/ d.pc = "returned" /\ d.ret = c.ret
                        \/ d.pc = "raised"]_vars
  /\ [](\A p \in Procs :
          cr[p].pc = "returned"
            => /\ cr[p].ret.status = "ok"
               /\ cr[p].ret.total_jobs = Len(cr[p].results)
               /\ cr[p].total_jobs_extracted >= Len(cr[p].results))

\* a crawl of up to two pages returned after its first page: the click on
\* Next raised, one of the two cards had been skipped
C11_Witness ==
  /\ cr[SyncId].pc = "returned"
  /\ cr[SyncId].max_pages = 2
  /\ cr[SyncId].current_page = 1
  /\ Logged(SyncId, "Error clicking next")
  /\ Logged(SyncId, "No more pages")
  /\ cr[SyncId].total_jobs_extracted = 2
  /\ cr[SyncId].ret = OkResult(1)

\* the states of one page iteration, from its header to its pagination
InPage ==
  {"hdr2", "hdr3", "scroll", "wait", "iter", "iter2", "converged", "final",
   "cards", "extract", "nextwait", "nextsettle", "nomore"}

\* C12: after the extraction of page p another page iteration begins if and
\* only if go_to_next_page advanced and p < max_pages, and otherwise the
\* crawl goes to the export; the page counter starts at 1, grows by one at
\* each advance and by nothing else, and no page beyond max_pages is
\* extracted.
C12_PageLimit ==
  /\ [][\A p \in Procs :
          LET c == cr[p]
              d == cr'[p]
          IN /\ (c.pc = "nextsettle" /\ d # c)
                  => \/ d.pc = "loop" /\ d.current_page = c.current_page + 1
                     \/ d.pc = "nomore" /\ d.current_page = c.current_page
             /\ (c.pc = "loop" /\ d # c)
                  => /\ d.current_page = c.current_page
                     /\ d.pc = "hdr2" <=> c.current_page - 1 < c.max_pages
                     /\ d.pc # "hdr2" => d.pc = "export"
             /\ (c.pc \in InPage \ {"nextsettle"} /\ d.pc # "idle")
                  => d.current_page = c.current_page
             /\ (c.pc = "get" /\ d.pc = "loop") => d.current_page = 1]_vars
  /\ [](\A p \in Procs :
          cr[p].pc \in InPage
            => (1 <= cr[p].current_page /\ cr[p].current_page <= cr[p].max_pages))

\* the advance after the last allowed page succeeded, and the loop ended
C12_Witness ==
  /\ cr[SyncId].pc = "export"
  /\ cr[SyncId].max_pages = 2
  /\ cr[SyncId].current_page = 3
  /\ ~Logged(SyncId, "No more pages")
  /\ Len(cr[SyncId].results) >= 2

\* C13 as stated: a run_scraper call that has returned or raised has left no
\* browser session open, and has quit the session it created exactly once;
\* this holds for a background run before it sets running = false.
C13_SessionQuitOnce ==
  \A p \in Procs :
    cr[p].pc \in {"returned", "raised"}
      => /\ cr[p].session # "open"
         /\ cr[p].session = "quit" => cr[p].quits = 1

\* C14: a card whose extract_job raises is logged as skipped and adds no
\* record; the records gathered so far stay as they are, the loop goes on
\* to the next card of the same page, and after the last card the advance to
\* the next page is attempted: no step of the card loop ends the run.
C14_RecordFaultSkipped ==
  [][\A p \in Procs :
       LET c == cr[p]
           d == cr'[p]
       IN (c.pc = "extract" /\ d # c)
            => IF c.i <= c.cards
               THEN /\ d = [c EXCEPT !.i = c.i + 1, !.results = d.results]
                    /\ \E card \in Kinds(env.kinds) :
                         LET r == extract_job(card, RefOf(c))
                         IN IF r.raised
                            THEN /\ d.results = c.results
                                 /\ logs' = Log(p, "Skipped job")
                            ELSE /\ d.results = Append(c.results, r.job)
                                 /\ logs' = Log(p, "job")
               ELSE /\ d.pc = "nextwait"
                    /\ d.results = c.results
                    /\ d.current_page = c.current_page
                    /\ logs' = Log(p, "Attempting next page")]_vars

\* the first of two cards was skipped, the second extracted, and the
\* advance to the next page is being attempted
C14_Witness ==
  /\ cr[SyncId].pc = "nextwait"
  /\ cr[SyncId].cards = 2
  /\ Logged(SyncId, "Skipped job")
  /\ Len(cr[SyncId].results) = 1
  /\ cr[SyncId].results[1].REF = 2
  /\ logs[Len(logs)] = Entry(SyncId, "Attempting next page")

\* C19: at every point of a crawl the REF values of the records gathered so
\* far increase strictly in the order of extraction, across pages, with
\* cards skipped or not, so no two records share a REF; no REF is beyond
\* the number of cards handed to extract_job so far.
C19_RefsIncrease ==
  \A p \in Procs :
    LET rs == cr[p].results
    IN /\ \A j, k \in 1..Len(rs) : j < k => rs[j].REF < rs[k].REF
       /\ \A k \in 1..Len(rs) :
            /\ 1 <= rs[k].REF
            /\ rs[k].REF <= cr[p].total_jobs_extracted + cr[p].cards

\* two pages of two cards each, the second card of the first page and the
\* first card of the second page skipped: the records carry REF 1 and 4
C19_Witness ==
  /\ cr[SyncId].current_page = 2
  /\ cr[SyncId].pc = "nextwait"
  /\ Len(cr[SyncId].results) = 2
  /\ cr[SyncId].results[1].REF = 1
  /\ cr[SyncId].results[2].REF = 4

\* C18 as stated: convergence is reported only when the list did not grow
\* during the last 12 iterations of the loop, the time between the end of
\* one iteration and the first count of the next included.
C18_NoConvergenceAfterGrowth ==
  \A p \in Procs :
    (cr[p].pc = "converged" /\ ~cr[p].gone)
      => cr[p].it - cr[p].stable_from >= StagnationLimit

\* l2 is l after at most one append at the tail, the oldest entries beyond
\* the cap evicted
TailAppended(l, l2) ==
  \/ l2 = l
  \/ /\ Len(l2) = Len(l) + 1
     /\ SubSeq(l2, 1, Len(l)) = l
  \/ /\ Len(l) >= LogCap
     /\ Len(l2) = LogCap
     /\ SubSeq(l2, 1, LogCap - 1) = SubSeq(l, Len(l) - LogCap + 2, Len(l))

\* C20 as stated: from the acknowledgement of a start to the end of that
\* background run, every step leaves the logs as they were or appends one
\* line at the tail (evicting the oldest beyond 200), so a line a status
\* reader has seen, "Starting scrape..." included, stays until 200 newer
\* lines have followed it.
C20_LogsAppendOnly ==
  [][(Latest > 0 /\ Accepted(Latest) /\ Accepted(Latest)')
       => TailAppended(logs, logs')]_vars

\* the tab-separated fields of a line as it stands in the text
FieldsOf(raw_line) == Split(raw_line, TAB)

\* the line is neither blank nor a comment and has at least 7 fields, empty
\* ones counted
WellFormed(raw_line) ==
  /\ Strip(raw_line) # <<>>
  /\ Head(Strip(raw_line)) # "#"
  /\ Len(FieldsOf(raw_line)) >= MinFields

RECURSIVE Select(_, _)
\* the numbers k..Len(lines) of the well-formed lines, in order
Select(lines, k) ==
  IF k > Len(lines) THEN <<>>
  ELSE (IF WellFormed(lines[k]) THEN <<k>> ELSE <<>>) \o Select(lines, k + 1)

\* C15 as stated: the cookies returned are, in line order, one for each
\* line that is neither blank nor '#'-prefixed and has at least 7
\* tab-separated fields, whatever the fields hold, and none for any other
\* line; no domain begins with a dot.
C15_OneCookiePerLine ==
  (call.fn = "parse_netscape_cookies" /\ call.pc = "returned")
    => /\ call.from = Select(call.lines, 1)
       /\ \A i \in 1..Len(call.cookies) :
            LET domain == call.cookies[i].domain
            IN domain = <<>> \/ Head(domain) # "."

\* C16 as stated: a cookie has an expiry exactly when the expiry field of
\* its line parses as an integer that is not zero, and the expiry is that
\* integer.
C16_ExpiryIffNonZero ==
  call.fn = "parse_netscape_cookies"
    => \A i \in 1..Len(call.cookies) :
         LET parts == Split(Strip(call.lines[call.from[i]]), TAB)
             n == IntOf(parts[5])
         IN /\ call.cookies[i].hasExpiry <=> (n.ok /\ n.val # 0)
            /\ call.cookies[i].hasExpiry => call.cookies[i].expiry = n.val

\* the requested name holds a path separator of the platform
HasSeparator(platform, name) == \E i \in 1..Len(name) : name[i] \in Seps(platform)

\* the regular files that lie directly in BASE_DIR
DirectFiles == {"base/x", "base/a"}

\* C17 as stated: a requested name that holds a path separator is answered
\* not-found, whatever files exist, and a file is returned only when the
\* requested name itself names a file directly in the artifact directory.
C17_SeparatorNotFound ==
  (call.fn = "download_csv" /\ call.pc = "returned")
    => /\ HasSeparator(call.platform, call.filename) => call.code = 404
       /\ call.code = 200
            => /\ call.node \in DirectFiles
               /\ call.node = Resolve(call.platform, call.fs, call.filename)

\* C17 amended: the requested name is reduced to its base name, which is
\* looked up directly in the artifact directory. The answer is not-found
\* exactly when the directory has no entry of that base name; a regular
\* file is returned only when it lies directly in the artifact directory
\* and is named by the base name of the requested name; a file elsewhere
\* (in the parent or in a sub-directory) is never returned, whether the
\* requested name reaches it or not. A name with a separator is thus
\* answered with the file of its base name when the directory holds one.
C17_BaseNameOnly ==
  (call.fn = "download_csv" /\ call.pc = "returned")
    => LET base == Basename(call.platform, call.filename)
       IN /\ call.safe_name = base
          /\ ~HasSeparator(call.platform, call.safe_name)
          /\ call.code \in {200, 404}
          /\ call.code = 404 <=> Lookup(call.fs, "base", base) = "none"
          /\ call.code = 200 => call.node = Lookup(call.fs, "base", base)
          /\ IsFile(call.node) => call.node \in DirectFiles
          /\ call.node \notin {"a/x", "parent/x", "up"}

\* the name a/x was requested where BASE_DIR holds both a/x and x: the file
\* x of BASE_DIR itself is returned
C17_Witness ==
  /\ call.fn = "download_csv"
  /\ call.pc = "returned"
  /\ call.filename = <<"a", "/", "x">>
  /\ Resolve(call.platform, call.fs, call.filename) = "a/x"
  /\ call.code = 200
  /\ call.node = "base/x"

====
